---- MODULE Spec2Model ----
(***************************************************************************)
(* Model of game/src/debug/building_procgen.rs: the procedural placement   *)
(* of houses along residential sidewalks that have no building             *)
(* (generate_buildings_on_empty_residential_roads and rand_dist).          *)
(*                                                                         *)
(* Units.  A coordinate or a Distance is an integer number of tenths of a  *)
(* metre.  The y axis points down, as on the screen.  A lane segment runs  *)
(* along an axis or along a 3-4-5 direction (cos and sin are 3/5 and 4/5   *)
(* up to sign and order), so that five times the cos and the sin of every  *)
(* angle is an integer and every point of a whole-metre draw is exact.     *)
(* An angle is named by its whole degrees: 0, 90, 180, 270 and 53, 143,    *)
(* 233, 323.  The generator is a seeded deterministic stream; gen_range    *)
(* yields whole metres of the half-open range.                             *)
(***************************************************************************)
EXTENDS Integers, Sequences, FiniteSets, TLC

\* Largest seed the generator is started with.
MaxSeed == 200
\* Largest number of buildings the map already holds.
MaxBuildings == 2
\* The largest end of a range handed to rand_dist on its own.
MaxEnd == 6

------------------------------------------------------------------------------
(* geom: points, angles, distances *)

Pt2D(x, y) == [x |-> x, y |-> y]

Abs(n) == IF n < 0 THEN -n ELSE n

\* Distance::meters: metres to model units (tenths of a metre).
Meters(m) == 10 * m

\* Five times the cos and the sin of an angle.
Cos5(a) ==
    CASE a = 0 -> 5 [] a = 90 -> 0 [] a = 180 -> -5 [] a = 270 -> 0
      [] a = 53 -> 3 [] a = 143 -> -4 [] a = 233 -> -3 [] a = 323 -> 4
Sin5(a) ==
    CASE a = 0 -> 0 [] a = 90 -> 5 [] a = 180 -> 0 [] a = 270 -> -5
      [] a = 53 -> 4 [] a = 143 -> 3 [] a = 233 -> -4 [] a = 323 -> -3

\* Angle::rotate_degs, normalized to [0, 360).
rotate_degs(a, degrees) == (a + degrees + 360) % 360

\* Pt2D::project_away: the point dist away from pt in direction theta.
project_away(pt, dist, theta) ==
    Pt2D(pt.x + (dist * Cos5(theta)) \div 5, pt.y + (dist * Sin5(theta)) \div 5)

\* Line::length and Line::angle of a line along an axis or along a 3-4-5
\* direction (where |dx| + |dy| is 7/5 of the length).
LineLength(a, b) ==
    IF a.x = b.x \/ a.y = b.y
    THEN Abs(b.x - a.x) + Abs(b.y - a.y)
    ELSE (5 * (Abs(b.x - a.x) + Abs(b.y - a.y))) \div 7
LineAngle(a, b) ==
    IF a.y = b.y THEN (IF b.x > a.x THEN 0 ELSE 180)
    ELSE IF a.x = b.x THEN (IF b.y > a.y THEN 90 ELSE 270)
    ELSE IF b.x > a.x THEN (IF b.y > a.y THEN 53 ELSE 323)
    ELSE (IF b.y > a.y THEN 143 ELSE 233)

\* PolyLine::length: the sum of the segments' lengths.
RECURSIVE LengthFrom(_, _)
LengthFrom(pts, i) ==
    IF i >= Len(pts) THEN 0
    ELSE LineLength(pts[i], pts[i + 1]) + LengthFrom(pts, i + 1)
PolyLength(pts) == LengthFrom(pts, 1)

\* PolyLine::must_dist_along: walk the segments until the one holding the
\* distance; the point on it and that segment's angle.  Defined for
\* 0 <= dist_along <= PolyLength(pts); outside that range the call aborts.
RECURSIVE DistAlongFrom(_, _, _)
DistAlongFrom(pts, i, dist_left) ==
    LET len == LineLength(pts[i], pts[i + 1])
        ang == LineAngle(pts[i], pts[i + 1])
    IN  IF dist_left <= len \/ i + 1 >= Len(pts)
        THEN [pt |-> project_away(pts[i], dist_left, ang), angle |-> ang]
        ELSE DistAlongFrom(pts, i + 1, dist_left - len)
must_dist_along(pts, dist_along) == DistAlongFrom(pts, 1, dist_along)
DistAlongDefined(pts, dist_along) ==
    0 <= dist_along /\ dist_along <= PolyLength(pts)

------------------------------------------------------------------------------
(* geom: polygons and bounds *)

\* Polygon::rectangle: corners of a w x h rectangle at the origin.
rectangle(w, h) == << Pt2D(0, 0), Pt2D(w, 0), Pt2D(w, h), Pt2D(0, h) >>

RECURSIVE SumX(_, _)
SumX(poly, i) == IF i > Len(poly) THEN 0 ELSE poly[i].x + SumX(poly, i + 1)
RECURSIVE SumY(_, _)
SumY(poly, i) == IF i > Len(poly) THEN 0 ELSE poly[i].y + SumY(poly, i + 1)

\* Polygon::center: the mean of the points.
center(poly) == Pt2D(SumX(poly, 1) \div Len(poly), SumY(poly, 1) \div Len(poly))

\* Polygon::rotate: rotation about the polygon's own center.
rotate(poly, angle) ==
    LET c == center(poly)
    IN  [i \in DOMAIN poly |->
            Pt2D(c.x + ((poly[i].x - c.x) * Cos5(angle)
                          - (poly[i].y - c.y) * Sin5(angle)) \div 5,
                 c.y + ((poly[i].y - c.y) * Cos5(angle)
                          + (poly[i].x - c.x) * Sin5(angle)) \div 5)]

\* Polygon::translate.
translate(poly, dx, dy) ==
    [i \in DOMAIN poly |-> Pt2D(poly[i].x + dx, poly[i].y + dy)]

\* Polygon::points.
points(poly) == {poly[i] : i \in DOMAIN poly}

MinOf(S) == CHOOSE m \in S : \A n \in S : m <= n
MaxOf(S) == CHOOSE m \in S : \A n \in S : m >= n

\* Polygon::get_bounds: the axis-aligned bounding box of the points.
get_bounds(poly) ==
    [min_x |-> MinOf({p.x : p \in points(poly)}),
     min_y |-> MinOf({p.y : p \in points(poly)}),
     max_x |-> MaxOf({p.x : p \in points(poly)}),
     max_y |-> MaxOf({p.y : p \in points(poly)})]

\* Bounds::get_rectangle: the box as a polygon.
get_rectangle(b) ==
    << Pt2D(b.min_x, b.min_y), Pt2D(b.max_x, b.min_y),
       Pt2D(b.max_x, b.max_y), Pt2D(b.min_x, b.max_y) >>

\* Bounds::add_buffer: the box grown by sides on every side.
add_buffer(b, sides) ==
    [min_x |-> b.min_x - sides, min_y |-> b.min_y - sides,
     max_x |-> b.max_x + sides, max_y |-> b.max_y + sides]

\* Bounds::as_bbox: the f32 box handed to the quadtree.  Every coordinate of
\* the model is a small multiple of 0.1 m, which the buffer of 1 m covers.
as_bbox(b) == b

\* Rect::does_intersect of the quadtree: closed boxes that share a point.
does_intersect(r1, r2) ==
    ~ (r2.min_x > r1.max_x \/ r2.max_x < r1.min_x
       \/ r2.min_y > r1.max_y \/ r2.max_y < r1.min_y)

\* Whether a point lies in a closed box.
BoxContains(b, pt) ==
    b.min_x <= pt.x /\ pt.x <= b.max_x /\ b.min_y <= pt.y /\ pt.y <= b.max_y

\* The normals of a polygon's edges.
EdgeNormals(p) ==
    {LET a == p[k]
         b == p[(k % Len(p)) + 1]
     IN  Pt2D(a.y - b.y, b.x - a.x) : k \in DOMAIN p}

\* The numbers a polygon's points project to along an axis.
Shadow(p, axis) == {q.x * axis.x + q.y * axis.y : q \in points(p)}

\* Polygon::intersects.  The polygons are convex and closed: two of them
\* share a point unless the normal of an edge of one of them separates their
\* shadows.
intersects(p, q) ==
    \A axis \in EdgeNormals(p) \cup EdgeNormals(q) :
        /\ MinOf(Shadow(p, axis)) <= MaxOf(Shadow(q, axis))
        /\ MinOf(Shadow(q, axis)) <= MaxOf(Shadow(p, axis))

------------------------------------------------------------------------------
(* The map: lanes, roads, buildings and the renderables of the basemap *)

LaneTypes == {"Sidewalk", "Driving"}
HighwayTags == {"residential", "primary"}

Box(x1, y1, x2, y2) == [min_x |-> x1, min_y |-> y1, max_x |-> x2, max_y |-> y2]

Layouts == {1, 2, 3, 4}

\* The lanes of each layout, in all_lanes() order: the centre line and the
\* parent road.
\*   1: one straight lane of 100 m.
\*   2: two lanes of 20 m on parallel streets whose houses face each other,
\*      and a lane of 3 m on the first lane's road.
\*   3: a lane of 30 m with a right-angle bend, and a lane of 0.5 m.
\*   4: one straight lane of 30 m along the direction (3, 4).
LayoutLanes(layout) ==
    CASE layout = 1 ->
            << [pts |-> << Pt2D(0, 0), Pt2D(1000, 0) >>, parent |-> 1] >>
      [] layout = 2 ->
            << [pts |-> << Pt2D(0, 0), Pt2D(200, 0) >>, parent |-> 1],
               [pts |-> << Pt2D(200, -390), Pt2D(0, -390) >>, parent |-> 2],
               [pts |-> << Pt2D(500, 0), Pt2D(530, 0) >>, parent |-> 1] >>
      [] layout = 3 ->
            << [pts |-> << Pt2D(0, 0), Pt2D(150, 0), Pt2D(150, -150) >>, parent |-> 1],
               [pts |-> << Pt2D(1000, 0), Pt2D(1005, 0) >>, parent |-> 1] >>
      [] layout = 4 ->
            << [pts |-> << Pt2D(0, 0), Pt2D(180, 240) >>, parent |-> 1] >>

LayoutRoads(layout) == IF layout = 2 THEN {1, 2} ELSE {1}

\* map.get_bounds() of each layout.
LayoutBounds(layout) ==
    CASE layout = 1 -> Box(0, -300, 1000, 50)
      [] layout = 2 -> Box(-50, -450, 650, 50)
      [] layout = 3 -> Box(-50, -300, 1050, 50)
      [] layout = 4 -> Box(-50, -300, 450, 350)

\* The renderables of each layout's basemap: the box the draw map indexes
\* the renderable under, and its shape as a union of closed boxes.
\*   2: a street strip between the two rows of houses, and an L-shaped area
\*      whose box is larger than its shape.
\*   3: a small pond that fits inside a house, and a strip that the
\*      deepest houses of the first stretch reach.
\*   4: an area beside the far end of the lane.
LayoutRenderables(layout) ==
    CASE layout = 1 -> {}
      [] layout = 2 ->
            { [bounds |-> Box(-200, -250, 500, -220),
               parts |-> {Box(-200, -250, 500, -220)}],
              [bounds |-> Box(400, -300, 650, -50),
               parts |-> {Box(560, -300, 650, -50), Box(400, -300, 650, -260)}] }
      [] layout = 3 ->
            { [bounds |-> Box(20, -150, 30, -140),
               parts |-> {Box(20, -150, 30, -140)}],
              [bounds |-> Box(-100, -240, 60, -225),
               parts |-> {Box(-100, -240, 60, -225)}] }
      [] layout = 4 ->
            { [bounds |-> Box(230, 0, 300, 60),
               parts |-> {Box(230, 0, 300, 60)}] }

\* Sequences over S of length at most n.
BoundedSeq(S, n) == UNION {[1..k -> S] : k \in 0..n}

\* Lane::is_sidewalk.
is_sidewalk(l) == l.lane_type = "Sidewalk"

\* Renderable::contains_pt: the point lies in the renderable's shape.
contains_pt(renderable, pt) == \E b \in renderable.parts : BoxContains(b, pt)

\* DrawMap::get_renderables_back_to_front: the renderables whose box
\* intersects the given bounds.
get_renderables_back_to_front(m, bounds) ==
    {r \in m.renderables : does_intersect(as_bbox(bounds), as_bbox(r.bounds))}

------------------------------------------------------------------------------
(* The random generator *)

\* One step of the seeded generator's state.
NextRng(s) == (s * 75 + 74) % 65537

\* Rng::gen_range(low..high): a whole number of the half-open range, and
\* the generator's next state.
gen_range(s, low, high) ==
    [val |-> low + (NextRng(s) % (high - low)), rng |-> NextRng(s)]

\* Mutant: rand_dist without its assertion: the ends are put in order and a range
\* of no width yields its only end.
RandDistClamping(s, low, high) ==
    IF high > low
    THEN [ok |-> TRUE, val |-> Meters(gen_range(s, low, high).val),
          rng |-> gen_range(s, low, high).rng]
    ELSE IF low > high
    THEN [ok |-> TRUE, val |-> Meters(gen_range(s, high, low).val),
          rng |-> gen_range(s, high, low).rng]
    ELSE [ok |-> TRUE, val |-> Meters(low), rng |-> s]

\* rand_dist: asserts high > low, then the drawn distance.
rand_dist(s, low, high) ==
    IF high > low
    THEN [ok |-> TRUE, val |-> Meters(gen_range(s, low, high).val),
          rng |-> gen_range(s, low, high).rng]
    ELSE [ok |-> FALSE, val |-> 0, rng |-> s]

------------------------------------------------------------------------------
(* The state of one call of generate_buildings_on_empty_residential_roads *)

VARIABLES
    map,                    \* app.primary.map and app.primary.draw_map (read only)
    rng,                    \* the generator passed in
    pc,                     \* the loop the call is in
    i,                      \* position of the running loop in its collection (from 1)
    lanes_with_buildings,   \* HashSet<LaneID>
    empty_sidewalks,        \* Vec<LaneID>
    lane,                   \* l of the placement loop (0 outside a lane)
    dist_along,             \* Distance along the lane
    houses,                 \* Vec<Polygon>: the pooled candidates
    non_overlapping,        \* Vec<Polygon>
    quadtree,               \* QuadTree<usize>: items keyed by index, with their boxes
    survivors,              \* Vec<Polygon>: the returned value once pc = "done"
    seed,                   \* sim_flags: the seed make_rng() started the generator with
    placed,                 \* history: for each element of houses, how it was placed
    offsets,                \* history: for each lane walked, its first dist_along
    kept,                   \* history: for each element of non_overlapping, its index in houses
    call                    \* the (low, high) of a call of rand_dist on its own (else << >>)

vars == << map, rng, pc, i, lanes_with_buildings, empty_sidewalks, lane,
           dist_along, houses, non_overlapping, quadtree, survivors, seed,
           placed, offsets, kept, call >>

MakeMap(layout, kinds, tags, bs) ==
    [lanes |-> [k \in DOMAIN LayoutLanes(layout) |->
                    [id |-> k, lane_type |-> kinds[k],
                     parent |-> LayoutLanes(layout)[k].parent,
                     lane_center_pts |-> LayoutLanes(layout)[k].pts]],
     roads |-> [r \in LayoutRoads(layout) |-> [highway |-> tags[r]]],
     buildings |-> [k \in DOMAIN bs |-> [sidewalk |-> bs[k]]],
     bounds |-> LayoutBounds(layout),
     renderables |-> LayoutRenderables(layout)]

Init ==
    /\ \E layout \in Layouts :
       \E kinds \in [DOMAIN LayoutLanes(layout) -> LaneTypes] :
       \E tags \in [LayoutRoads(layout) -> HighwayTags] :
       \E bs \in BoundedSeq({k \in DOMAIN kinds : kinds[k] = "Sidewalk"}, MaxBuildings) :
           map = MakeMap(layout, kinds, tags, bs)
    /\ seed \in 1..MaxSeed
    /\ rng = seed
    /\ pc = "buildings"
    /\ i = 1
    /\ lanes_with_buildings = {}
    /\ empty_sidewalks = << >>
    /\ lane = 0
    /\ dist_along = 0
    /\ houses = << >>
    /\ non_overlapping = << >>
    /\ quadtree = {}
    /\ survivors = << >>
    /\ placed = << >>
    /\ offsets = << >>
    /\ kept = << >>
    /\ call = << >>

\* map.get_l and map.get_r.
get_l(m, l) == m.lanes[l]
get_r(m, r) == m.roads[r]

------------------------------------------------------------------------------
(* Lines 100-114: the sidewalks of residential roads that have no building *)

\* for b in map.all_buildings() { lanes_with_buildings.insert(b.sidewalk()) }
InsertBuilding ==
    /\ pc = "buildings"
    /\ i <= Len(map.buildings)
    /\ lanes_with_buildings' = lanes_with_buildings \cup {map.buildings[i].sidewalk}
    /\ i' = i + 1
    /\ UNCHANGED << map, call, seed, rng, pc, empty_sidewalks, lane, dist_along, houses,
                    non_overlapping, quadtree, survivors, placed, offsets, kept >>

BuildingsDone ==
    /\ pc = "buildings"
    /\ i > Len(map.buildings)
    /\ pc' = "lanes"
    /\ i' = 1
    /\ UNCHANGED << map, call, seed, rng, lanes_with_buildings, empty_sidewalks, lane,
                    dist_along, houses, non_overlapping, quadtree, survivors,
                    placed, offsets, kept >>

\* Mutant: the lanes that buildings front are not left out.
IsResidentialSidewalk(m, with_buildings, l) ==
    /\ is_sidewalk(l)
    /\ get_r(m, l.parent).highway = "residential"

\* Mutant: the lane's type is not looked at.
IsEmptyResidentialLane(m, with_buildings, l) ==
    /\ l.id \notin with_buildings
    /\ get_r(m, l.parent).highway = "residential"

\* Mutant: a building on any lane of the road leaves the whole road out.
IsSidewalkOfEmptyRoad(m, with_buildings, l) ==
    /\ is_sidewalk(l)
    /\ \A k \in DOMAIN m.lanes :
          m.lanes[k].parent = l.parent => m.lanes[k].id \notin with_buildings
    /\ get_r(m, l.parent).highway = "residential"

\* The condition of line 108-110.
IsEmptyResidentialSidewalk(m, with_buildings, l) ==
    /\ is_sidewalk(l)
    /\ l.id \notin with_buildings
    /\ get_r(m, l.parent).highway = "residential"

\* for l in map.all_lanes() { if ... { empty_sidewalks.push(l.id) } }
CheckLane ==
    /\ pc = "lanes"
    /\ i <= Len(map.lanes)
    /\ empty_sidewalks' =
          IF IsEmptyResidentialSidewalk(map, lanes_with_buildings, map.lanes[i])
          THEN Append(empty_sidewalks, map.lanes[i].id)
          ELSE empty_sidewalks
    /\ i' = i + 1
    /\ UNCHANGED << map, call, seed, rng, pc, lanes_with_buildings, lane, dist_along, houses,
                    non_overlapping, quadtree, survivors, placed, offsets, kept >>

LanesDone ==
    /\ pc = "lanes"
    /\ i > Len(map.lanes)
    /\ pc' = "sidewalks"
    /\ i' = 1
    /\ UNCHANGED << map, call, seed, rng, lanes_with_buildings, empty_sidewalks, lane,
                    dist_along, houses, non_overlapping, quadtree, survivors,
                    placed, offsets, kept >>

------------------------------------------------------------------------------
(* Lines 116-140: walk each sidewalk and place houses set back from it *)

Max(a, b) == IF a >= b THEN a ELSE b

\* Mutant: the height is not accounted for.
SetbackFixed(height) == Meters(10)

\* Line 129: the distance from the sidewalk to the house's center, for a
\* height in metres.
Setback(height) == Meters(10) + Meters(height) \div 2

\* Lines 130-136: the rectangle of width x height metres whose center is
\* Setback(height) away from sidewalk_pt, at a right angle to the lane.
HousePolygon(sidewalk_pt, angle, width, height) ==
    LET c == project_away(sidewalk_pt, Setback(height), rotate_degs(angle, -90))
    IN  translate(rotate(rectangle(Meters(width), Meters(height)), angle),
                  c.x - Meters(width) \div 2, c.y - Meters(height) \div 2)

\* Mutant: the scan position advances by the smaller side.
HouseAdvanceSmaller(width, height) ==
    Meters(IF width <= height THEN width ELSE height)

\* Line 138: how far the walk moves on after a house, before the gap.
HouseAdvance(width, height) == Meters(Max(width, height))

\* Mutant: the first offset is fixed at 1 m and nothing is drawn for it.
FirstOffsetFixed(s) == [ok |-> TRUE, val |-> Meters(1), rng |-> s]

\* Line 121: the first dist_along of a lane.
FirstOffset(s) == rand_dist(s, 1, 5)

\* Mutant: the range includes its upper end.
SideLengthInclusive(s) == gen_range(s, 6, 15)

\* Lines 124-125: a width or a height, in metres.
SideLength(s) == gen_range(s, 6, 14)

\* Mutant: the range of the gap begins at 0 m.
GapFromZero(s) == rand_dist(s, 0, 4)

\* Mutant: the gap with the ends of its range exchanged.
GapSwapped(s) == rand_dist(s, 4, 2)

\* Line 138: the gap left after a house.
Gap(s) == rand_dist(s, 2, 4)

\* Mutant: the walk goes on when dist_along equals the length.
WalkContinuesAtEnd(d, l) == d <= PolyLength(l.lane_center_pts)

\* Line 122: the condition of the while loop.
WalkContinues(d, l) == d < PolyLength(l.lane_center_pts)

\* for l in empty_sidewalks { let lane = map.get_l(l);
\*                            let mut dist_along = rand_dist(rng, 1.0, 5.0);
NextSidewalk ==
    /\ pc = "sidewalks"
    /\ i <= Len(empty_sidewalks)
    /\ LET first == FirstOffset(rng)
       IN  IF first.ok
           THEN /\ pc' = "walk"
                /\ lane' = empty_sidewalks[i]
                /\ dist_along' = first.val
                /\ rng' = first.rng
                /\ offsets' = Append(offsets, [lane |-> empty_sidewalks[i],
                                               dist |-> first.val])
           ELSE /\ pc' = "aborted"
                /\ UNCHANGED << lane, dist_along, rng, offsets >>
    /\ UNCHANGED << map, call, seed, i, lanes_with_buildings, empty_sidewalks, houses,
                    non_overlapping, quadtree, survivors, placed, kept >>

\* One turn of the while loop, lines 123-138.
PlaceHouse ==
    /\ pc = "walk"
    /\ WalkContinues(dist_along, get_l(map, lane))
    /\ LET pts == get_l(map, lane).lane_center_pts
           at == must_dist_along(pts, dist_along)
           w == SideLength(rng)
           h == SideLength(w.rng)
           gap == Gap(h.rng)
       IN  IF DistAlongDefined(pts, dist_along) /\ gap.ok
           THEN /\ houses' = Append(houses,
                        HousePolygon(at.pt, at.angle, w.val, h.val))
                /\ placed' = Append(placed,
                        [lane |-> lane, dist |-> dist_along, pt |-> at.pt,
                         angle |-> at.angle, width |-> w.val, height |-> h.val,
                         gap |-> gap.val])
                /\ dist_along' = dist_along + HouseAdvance(w.val, h.val) + gap.val
                /\ rng' = gap.rng
                /\ pc' = pc
           ELSE /\ pc' = "aborted"
                /\ UNCHANGED << houses, placed, dist_along, rng >>
    /\ UNCHANGED << map, call, seed, i, lanes_with_buildings, empty_sidewalks, lane,
                    non_overlapping, quadtree, survivors, offsets, kept >>

\* The while loop ends; on to the next sidewalk.
SidewalkDone ==
    /\ pc = "walk"
    /\ ~ WalkContinues(dist_along, get_l(map, lane))
    /\ pc' = "sidewalks"
    /\ i' = i + 1
    /\ lane' = 0
    /\ UNCHANGED << map, call, seed, rng, lanes_with_buildings, empty_sidewalks, dist_along,
                    houses, non_overlapping, quadtree, survivors, placed, offsets, kept >>

------------------------------------------------------------------------------
(* Lines 143-159: remove houses that hit each other *)

\* QuadTree::query: the items whose box intersects the given box.
query(tree, bbox) == {e \in tree : does_intersect(bbox, e.aabb)}

\* QuadTree::default: an empty tree, whatever the box it is made for.
quadtree_default(bbox) == {}

\* QuadTree::insert_with_box.
insert_with_box(tree, item, bbox) == tree \cup {[item |-> item, aabb |-> bbox]}

\* The orders in which a query may yield its items.
Orderings(S) ==
    {f \in [1..Cardinality(S) -> S] : \A a, b \in DOMAIN f : f[a] = f[b] => a = b}

\* Mutant: the candidate is tested against the last accepted house only.
HitsLastAccepted(poly, hits, k, accepted) ==
    /\ Len(accepted) >= 1
    /\ intersects(poly, accepted[Len(accepted)])

\* Mutant: only the first item the query yields is tested.
HitsFirstOnly(poly, hits, k, accepted) ==
    /\ Len(hits) >= 1
    /\ intersects(poly, accepted[hits[1].item + 1])

\* Mutant: the candidate's bounding box is tested against the accepted
\* polygons.
HitsAcceptedByBox(poly, hits, k, accepted) ==
    \E n \in DOMAIN hits :
        intersects(get_rectangle(get_bounds(poly)), accepted[hits[n].item + 1])

\* Mutant: any item the query yields rejects the candidate.
HitsAnyInBuffer(poly, hits, k, accepted) == Len(hits) >= 1

\* Lines 152-156: whether the inner loop leaves by continue 'HOUSE, the
\* hits taken in the order given.  An item idx is the 0-based index of a
\* polygon of accepted.
RECURSIVE HitsAccepted(_, _, _, _)
HitsAccepted(poly, hits, k, accepted) ==
    IF k > Len(hits) THEN FALSE
    ELSE IF intersects(poly, accepted[hits[k].item + 1]) THEN TRUE
    ELSE HitsAccepted(poly, hits, k + 1, accepted)

\* Mutant: the buffer is taken off the box instead of added to it.
SearchBoxShrunk(poly) == as_bbox(add_buffer(get_bounds(poly), - Meters(1)))

\* Lines 150-151: the box the quadtree is asked about.
SearchBox(poly) == as_bbox(add_buffer(get_bounds(poly), Meters(1)))

\* Mutant: the houses are taken last first.
HouseOfTurnReversed(hs, k) == Len(hs) + 1 - k

\* Line 148: the index in houses of the house the k-th turn of the loop
\* takes: for poly in houses goes through them in order.
HouseOfTurn(hs, k) == k

\* Mutant: the candidate's box is put in the quadtree before the test.
AfterRejectIndexed(accepted, tree, poly) ==
    [non_overlapping |-> accepted,
     quadtree |-> insert_with_box(tree, Len(accepted), as_bbox(get_bounds(poly)))]

\* Line 154: continue 'HOUSE leaves the accepted polygons and the quadtree
\* as they are.
AfterReject(accepted, tree, poly) ==
    [non_overlapping |-> accepted, quadtree |-> tree]

\* Mutant: the polygon is keyed by the length after the push.
AfterAcceptKeyedLate(accepted, tree, poly) ==
    [non_overlapping |-> Append(accepted, poly),
     quadtree |-> insert_with_box(tree, Len(accepted) + 1, as_bbox(get_bounds(poly)))]

\* Lines 157-158: the polygon's own box goes into the quadtree under
\* non_overlapping.len(), and the polygon is pushed.
AfterAccept(accepted, tree, poly) ==
    [non_overlapping |-> Append(accepted, poly),
     quadtree |-> insert_with_box(tree, Len(accepted), as_bbox(get_bounds(poly)))]

\* Line 141-147: placement is over; the quadtree starts empty.
StartPruning ==
    /\ pc = "sidewalks"
    /\ i > Len(empty_sidewalks)
    /\ pc' = "prune"
    /\ i' = 1
    /\ non_overlapping' = << >>
    /\ quadtree' = quadtree_default(as_bbox(map.bounds))
    /\ UNCHANGED << map, call, seed, rng, lanes_with_buildings, empty_sidewalks, lane,
                    dist_along, houses, survivors, placed, offsets, kept >>

\* 'HOUSE: for poly in houses { ... }, one house.
PruneHouse ==
    /\ pc = "prune"
    /\ i <= Len(houses)
    /\ LET poly == houses[HouseOfTurn(houses, i)]
       IN  \E hits \in Orderings(query(quadtree, SearchBox(poly))) :
              IF HitsAccepted(poly, hits, 1, non_overlapping)
              THEN /\ non_overlapping'
                        = AfterReject(non_overlapping, quadtree, poly).non_overlapping
                   /\ quadtree' = AfterReject(non_overlapping, quadtree, poly).quadtree
                   /\ UNCHANGED kept
              ELSE /\ non_overlapping'
                        = AfterAccept(non_overlapping, quadtree, poly).non_overlapping
                   /\ quadtree' = AfterAccept(non_overlapping, quadtree, poly).quadtree
                   /\ kept' = Append(kept, HouseOfTurn(houses, i))
    /\ i' = i + 1
    /\ UNCHANGED << map, call, seed, rng, pc, lanes_with_buildings, empty_sidewalks, lane,
                    dist_along, houses, survivors, placed, offsets >>

------------------------------------------------------------------------------
(* Lines 161-185: remove houses that hit the basemap *)

\* Mutant: the house's center is tested instead of each of its points.
ClearOfBasemapAtCenter(m, poly) ==
    \A renderable \in get_renderables_back_to_front(m, get_bounds(poly)) :
        ~ contains_pt(renderable, center(poly))

\* Mutant: any in place of all over the possible hits.
ClearOfSomeRenderable(m, poly) ==
    \E renderable \in get_renderables_back_to_front(m, get_bounds(poly)) :
        ~ \E pt \in points(poly) : contains_pt(renderable, pt)

\* Mutant: the corners of the renderable's parts are tested against the
\* house instead of the house's points against the renderable.
ClearOfBasemapReversed(m, poly) ==
    \A renderable \in get_renderables_back_to_front(m, get_bounds(poly)) :
        ~ \E part \in renderable.parts :
            \E k \in 1..4 : intersects(<< get_rectangle(part)[k] >>, poly)

\* Lines 176-181: no possible hit contains a point of the house.
ClearOfBasemap(m, poly) ==
    \A renderable \in get_renderables_back_to_front(m, get_bounds(poly)) :
        ~ \E pt \in points(poly) : contains_pt(renderable, pt)

\* Mutant: the filter goes through every candidate placed.
FilterInputAll(hs, accepted) == hs

\* Line 168: for poly in non_overlapping, the polygons the filter goes
\* through.
FilterInput(hs, accepted) == accepted

\* Lines 163-167.
StartBasemap ==
    /\ pc = "prune"
    /\ i > Len(houses)
    /\ pc' = "basemap"
    /\ i' = 1
    /\ survivors' = << >>
    /\ UNCHANGED << map, call, seed, rng, lanes_with_buildings, empty_sidewalks, lane,
                    dist_along, houses, non_overlapping, quadtree, placed, offsets, kept >>

\* for poly in non_overlapping { ... }, one house.
FilterHouse ==
    /\ pc = "basemap"
    /\ i <= Len(FilterInput(houses, non_overlapping))
    /\ survivors' =
          IF ClearOfBasemap(map, FilterInput(houses, non_overlapping)[i])
          THEN Append(survivors, FilterInput(houses, non_overlapping)[i])
          ELSE survivors
    /\ i' = i + 1
    /\ UNCHANGED << map, call, seed, rng, pc, lanes_with_buildings, empty_sidewalks, lane,
                    dist_along, houses, non_overlapping, quadtree, placed, offsets, kept >>

\* Line 185: survivors is returned.
Return ==
    /\ pc = "basemap"
    /\ i > Len(FilterInput(houses, non_overlapping))
    /\ pc' = "done"
    /\ UNCHANGED << map, call, seed, rng, i, lanes_with_buildings, empty_sidewalks, lane,
                    dist_along, houses, non_overlapping, quadtree, survivors,
                    placed, offsets, kept >>

Next ==
    \/ InsertBuilding
    \/ BuildingsDone
    \/ CheckLane
    \/ LanesDone
    \/ NextSidewalk
    \/ PlaceHouse
    \/ SidewalkDone
    \/ StartPruning
    \/ PruneHouse
    \/ StartBasemap
    \/ FilterHouse
    \/ Return

Spec == Init /\ [][Next]_vars

------------------------------------------------------------------------------
(* Lines 188-191: rand_dist on its own, over ranges of every shape *)

\* The ends of the ranges: low and high are whole metres, in any order.
RangeEnds == 0..MaxEnd

\* A caller about to call rand_dist(rng, low, high) with a seeded generator.
RandDistInit ==
    /\ map = MakeMap(1, [k \in {1} |-> "Sidewalk"], [r \in {1} |-> "residential"], << >>)
    /\ \E low, high \in RangeEnds : call = [low |-> low, high |-> high]
    /\ seed \in 1..MaxSeed
    /\ rng = seed
    /\ pc = "call"
    /\ i = 1
    /\ lanes_with_buildings = {}
    /\ empty_sidewalks = << >>
    /\ lane = 0
    /\ dist_along = 0
    /\ houses = << >>
    /\ non_overlapping = << >>
    /\ quadtree = {}
    /\ survivors = << >>
    /\ placed = << >>
    /\ offsets = << >>
    /\ kept = << >>

\* The call: the assertion fails and the caller aborts, or the distance is
\* returned (here into dist_along) and the generator has advanced.
RandDistCall ==
    /\ pc = "call"
    /\ LET r == rand_dist(rng, call.low, call.high)
       IN  IF r.ok
           THEN /\ pc' = "returned"
                /\ dist_along' = r.val
                /\ rng' = r.rng
           ELSE /\ pc' = "aborted"
                /\ UNCHANGED << dist_along, rng >>
    /\ UNCHANGED << map, call, seed, i, lanes_with_buildings, empty_sidewalks, lane,
                    houses, non_overlapping, quadtree, survivors, placed, offsets,
                    kept >>

RandDistNext == RandDistCall

RandDistSpec == RandDistInit /\ [][RandDistNext]_vars

------------------------------------------------------------------------------
(* Properties *)

Returned == pc = "done"

\* What the claims call eligible, read off the map alone: a sidewalk that
\* no building of the map fronts, on a road tagged residential.
EligibleLane(l) ==
    /\ l.lane_type = "Sidewalk"
    /\ \A b \in DOMAIN map.buildings : map.buildings[b].sidewalk # l.id
    /\ map.roads[l.parent].highway = "residential"

\* C1: no two distinct polygons of the returned sequence intersect each
\* other.
C1_NoSelfOverlap ==
    Returned =>
        \A a, b \in DOMAIN survivors :
            a # b => ~ intersects(survivors[a], survivors[b])

\* A run that returned at least two houses after the pruner had dropped a
\* candidate that hit an accepted one.
C1_Witness ==
    /\ Returned
    /\ Len(survivors) >= 2
    /\ Len(non_overlapping) < Len(houses)

\* C2: no vertex of a returned polygon lies inside a renderable whose
\* bounding box intersects the polygon's bounding box.
C2_NoBasemapOverlap ==
    Returned =>
        \A k \in DOMAIN survivors :
            \A r \in map.renderables :
                does_intersect(get_bounds(survivors[k]), r.bounds) =>
                    \A pt \in points(survivors[k]) : ~ contains_pt(r, pt)

\* A run in which the filter dropped a house and returned another one whose
\* box meets a renderable's box.
C2_Witness ==
    /\ Returned
    /\ Len(survivors) < Len(non_overlapping)
    /\ \E k \in DOMAIN survivors :
          \E r \in map.renderables :
              does_intersect(get_bounds(survivors[k]), r.bounds)

\* The ids of the eligible lanes, in all_lanes() order.
RECURSIVE EligibleIdsFrom(_)
EligibleIdsFrom(k) ==
    IF k > Len(map.lanes) THEN << >>
    ELSE (IF EligibleLane(map.lanes[k]) THEN << map.lanes[k].id >> ELSE << >>)
         \o EligibleIdsFrom(k + 1)

\* C3: once the selection loop has ended, empty_sidewalks holds exactly the
\* eligible lanes' ids, each once, in all_lanes() order.
C3_SelectionExact ==
    pc \notin {"buildings", "lanes"} => empty_sidewalks = EligibleIdsFrom(1)

\* The selection ended on a map with a building, having taken some lanes
\* and left others.
C3_Witness ==
    /\ pc = "sidewalks"
    /\ Len(map.buildings) >= 1
    /\ Len(empty_sidewalks) >= 1
    /\ Len(empty_sidewalks) < Len(map.lanes)

\* C4: every candidate is placed from an eligible lane, and every returned
\* polygon is such a candidate.
C4_OnlyEligibleLanes ==
    /\ \A k \in DOMAIN placed : EligibleLane(map.lanes[placed[k].lane])
    /\ lane # 0 => EligibleLane(map.lanes[lane])
    /\ Len(placed) = Len(houses)
    /\ Returned =>
          \A n \in DOMAIN survivors :
              \E k \in DOMAIN houses :
                  /\ houses[k] = survivors[n]
                  /\ EligibleLane(map.lanes[placed[k].lane])

\* A house was returned from a map that also holds a lane that is not
\* eligible.
C4_Witness ==
    /\ Returned
    /\ Len(survivors) >= 1
    /\ \E k \in DOMAIN map.lanes : ~ EligibleLane(map.lanes[k])

\* The self-overlap loop has ended.
PruningOver == pc \in {"basemap", "done"}

\* Whether the pruner accepted houses[k].
Accepted(k) == \E n \in DOMAIN kept : kept[n] = k

\* C5: the pruner takes the candidates in generation order and keeps a
\* subsequence of them whose members do not intersect each other; a kept
\* candidate shuts out every later one that intersects it, and of two
\* candidates that intersect each other and nothing else the earlier is
\* kept and the later dropped.
C5_EarlierWins ==
    PruningOver =>
        /\ Len(kept) = Len(non_overlapping)
        /\ \A n \in DOMAIN kept :
              /\ kept[n] \in DOMAIN houses
              /\ non_overlapping[n] = houses[kept[n]]
        /\ \A n, m \in DOMAIN kept : n < m => kept[n] < kept[m]
        /\ \A n, m \in DOMAIN non_overlapping :
              n # m => ~ intersects(non_overlapping[n], non_overlapping[m])
        /\ \A j, k \in DOMAIN houses :
              (j < k /\ intersects(houses[j], houses[k]) /\ Accepted(j))
                  => ~ Accepted(k)
        /\ \A j, k \in DOMAIN houses :
              (/\ j < k
               /\ intersects(houses[j], houses[k])
               /\ \A m \in DOMAIN houses \ {j, k} :
                     /\ ~ intersects(houses[m], houses[j])
                     /\ ~ intersects(houses[m], houses[k]))
                  => (Accepted(j) /\ ~ Accepted(k))

\* Two candidates intersected each other and nothing else, and the pruner
\* has ended.
C5_Witness ==
    /\ PruningOver
    /\ \E j, k \in DOMAIN houses :
          /\ j < k
          /\ intersects(houses[j], houses[k])
          /\ \A m \in DOMAIN houses \ {j, k} :
                /\ ~ intersects(houses[m], houses[j])
                /\ ~ intersects(houses[m], houses[k])

\* The offsets of a polygon's points from pt, measured along direction a.
OffsetsAlong(poly, pt, a) ==
    {((q.x - pt.x) * Cos5(a) + (q.y - pt.y) * Sin5(a)) \div 5 : q \in points(poly)}

\* The distance from the sidewalk point to the polygon's nearest edge, at a
\* right angle to the lane (the tangent rotated by -90 degrees).
FrontDistance(poly, pt, angle) ==
    MinOf(OffsetsAlong(poly, pt, rotate_degs(angle, -90)))

\* C6: each candidate's front edge is 10 m from its sidewalk point whatever
\* its height: its center is 10 m + height / 2 away at a right angle to
\* the lane, level with the sidewalk point, and its far edge 10 m + height.
C6_FrontSetback ==
    /\ Len(placed) = Len(houses)
    /\ \A k \in DOMAIN houses :
          LET e == placed[k]
              away == rotate_degs(e.angle, -90)
          IN  /\ FrontDistance(houses[k], e.pt, e.angle) = Meters(10)
              /\ MaxOf(OffsetsAlong(houses[k], e.pt, away))
                    = Meters(10) + Meters(e.height)
              /\ OffsetsAlong(<< center(houses[k]) >>, e.pt, away)
                    = {Meters(10) + Meters(e.height) \div 2}
              /\ OffsetsAlong(<< center(houses[k]) >>, e.pt, e.angle) = {0}

\* Candidates of different heights were placed, one on a lane segment
\* along the x axis and one on a segment along the y axis.
C6_Witness ==
    \E j, k \in DOMAIN placed :
        /\ placed[j].height # placed[k].height
        /\ placed[j].angle = 0
        /\ placed[k].angle = 270

\* C8: a selected lane that is not longer than the first offset drawn for
\* it gets no candidate and its centre line is never sampled; the call does
\* not abort.
C8_ShortLaneNoCandidates ==
    /\ pc # "aborted"
    /\ \A o \in DOMAIN offsets :
          PolyLength(map.lanes[offsets[o].lane].lane_center_pts) <= offsets[o].dist
              => \A k \in DOMAIN placed : placed[k].lane # offsets[o].lane

\* The call returned after walking the lane of 0.5 m, whose first offset
\* was at least 1 m, and placing houses on another lane.
C8_Witness ==
    /\ Returned
    /\ Len(houses) >= 1
    /\ \E o \in DOMAIN offsets :
          /\ PolyLength(map.lanes[offsets[o].lane].lane_center_pts) = Meters(1) \div 2
          /\ offsets[o].dist >= Meters(1)

\* The map of the scenario: one lane, a straight sidewalk of 100 m on a
\* residential road, no building and no renderable.
StraightLaneScenario ==
    /\ Len(map.lanes) = 1
    /\ map.lanes[1].lane_type = "Sidewalk"
    /\ Len(map.lanes[1].lane_center_pts) = 2
    /\ PolyLength(map.lanes[1].lane_center_pts) = Meters(100)
    /\ map.roads[map.lanes[1].parent].highway = "residential"
    /\ map.buildings = << >>
    /\ map.renderables = {}

\* C9: in the scenario the call returns at least one polygon, the returned
\* polygons do not intersect each other, and each has its front edge 10 m
\* from the sidewalk point it was placed at.
C9_StraightLane ==
    (StraightLaneScenario /\ Returned) =>
        /\ Len(survivors) >= 1
        /\ \A a, b \in DOMAIN survivors :
              a # b => ~ intersects(survivors[a], survivors[b])
        /\ \A n \in DOMAIN survivors :
              \E k \in DOMAIN houses :
                  /\ houses[k] = survivors[n]
                  /\ FrontDistance(houses[k], placed[k].pt, placed[k].angle)
                        = Meters(10)

\* The scenario returned, the pruner having dropped a candidate.
C9_Witness ==
    /\ StraightLaneScenario
    /\ Returned
    /\ Len(survivors) < Len(houses)

\* The extent of a polygon along direction a.
Extent(poly, a) ==
    MaxOf(OffsetsAlong(poly, Pt2D(0, 0), a)) - MinOf(OffsetsAlong(poly, Pt2D(0, 0), a))

\* Four distinct corners, each edge at a right angle to the next.
IsRectangle(poly) ==
    /\ Len(poly) = 4
    /\ Cardinality(points(poly)) = 4
    /\ \A k \in 1..4 :
          LET a == poly[k]
              b == poly[(k % 4) + 1]
              c == poly[((k + 1) % 4) + 1]
          IN  (b.x - a.x) * (c.x - b.x) + (b.y - a.y) * (c.y - b.y) = 0

\* C10: every candidate is a rectangle of four corners, width metres along
\* the lane and height metres across it, with 6 <= width < 14 and
\* 6 <= height < 14; every returned polygon is one of the candidates.
C10_RectangleSides ==
    /\ Len(placed) = Len(houses)
    /\ \A k \in DOMAIN houses :
          /\ IsRectangle(houses[k])
          /\ Extent(houses[k], placed[k].angle) = Meters(placed[k].width)
          /\ Extent(houses[k], rotate_degs(placed[k].angle, -90))
                = Meters(placed[k].height)
          /\ Meters(6) <= Extent(houses[k], placed[k].angle)
          /\ Extent(houses[k], placed[k].angle) < Meters(14)
          /\ Meters(6) <= Extent(houses[k], rotate_degs(placed[k].angle, -90))
          /\ Extent(houses[k], rotate_degs(placed[k].angle, -90)) < Meters(14)
    /\ \A n \in DOMAIN survivors : \E k \in DOMAIN houses : houses[k] = survivors[n]

\* A run returned houses among which one is wider than high, one higher
\* than wide, one has a side of 6 m and one a side of 13 m.
C10_Witness ==
    /\ Returned
    /\ Len(survivors) >= 1
    /\ \E k \in DOMAIN placed : placed[k].width > placed[k].height
    /\ \E k \in DOMAIN placed : placed[k].width < placed[k].height
    /\ \E k \in DOMAIN placed : 6 \in {placed[k].width, placed[k].height}
    /\ \E k \in DOMAIN placed : 13 \in {placed[k].width, placed[k].height}

\* The output as a function of the map and the seed alone: the eligible
\* lanes in order, the walk of each with the generator threaded through,
\* the candidates kept when none of the earlier kept ones intersects them,
\* and of those the ones clear of the basemap.
RECURSIVE WalkFrom(_, _, _, _)
WalkFrom(l, d, s, acc) ==
    IF WalkContinues(d, l)
    THEN LET at == must_dist_along(l.lane_center_pts, d)
             w == SideLength(s)
             h == SideLength(w.rng)
             gap == Gap(h.rng)
         IN  WalkFrom(l, d + HouseAdvance(w.val, h.val) + gap.val, gap.rng,
                      Append(acc, HousePolygon(at.pt, at.angle, w.val, h.val)))
    ELSE [houses |-> acc, rng |-> s]

RECURSIVE PlaceFrom(_, _, _, _)
PlaceFrom(ids, k, s, acc) ==
    IF k > Len(ids) THEN acc
    ELSE LET first == FirstOffset(s)
             walked == WalkFrom(map.lanes[ids[k]], first.val, first.rng, acc)
         IN  PlaceFrom(ids, k + 1, walked.rng, walked.houses)

RECURSIVE KeepFrom(_, _, _)
KeepFrom(hs, k, acc) ==
    IF k > Len(hs) THEN acc
    ELSE IF \E n \in DOMAIN acc : intersects(hs[k], acc[n])
         THEN KeepFrom(hs, k + 1, acc)
         ELSE KeepFrom(hs, k + 1, Append(acc, hs[k]))

RECURSIVE ClearFrom(_, _, _)
ClearFrom(hs, k, acc) ==
    IF k > Len(hs) THEN acc
    ELSE IF \A r \in map.renderables :
                does_intersect(get_bounds(hs[k]), r.bounds)
                    => \A pt \in points(hs[k]) : ~ contains_pt(r, pt)
         THEN ClearFrom(hs, k + 1, Append(acc, hs[k]))
         ELSE ClearFrom(hs, k + 1, acc)

OutputOf(sd) ==
    ClearFrom(KeepFrom(PlaceFrom(EligibleIdsFrom(1), 1, sd, << >>), 1, << >>),
              1, << >>)

\* C7: the returned sequence is determined by the map and the seed: every
\* run from the same map and seed returns OutputOf(seed), in whatever order
\* the quadtree yields the items of a query.
C7_Deterministic == Returned => survivors = OutputOf(seed)

\* A run returned houses after a query of the quadtree had yielded two
\* accepted houses, of which one intersected the candidate and one did not.
C7_Witness ==
    /\ Returned
    /\ Len(survivors) >= 1
    /\ \E k \in DOMAIN houses :
          \E e1, e2 \in query(quadtree, SearchBox(houses[k])) :
              /\ kept[e1.item + 1] < k
              /\ kept[e2.item + 1] < k
              /\ intersects(houses[k], non_overlapping[e1.item + 1])
              /\ ~ intersects(houses[k], non_overlapping[e2.item + 1])

\* C11: rand_dist called with high <= low aborts the caller before anything
\* is drawn: nothing is returned and the generator is as it was; called with
\* high > low it returns, after one draw, a distance d with
\* low m <= d < high m.
C11_RandDistRange ==
    /\ pc \in {"call", "returned", "aborted"}
    /\ pc = "aborted" =>
          /\ call.high <= call.low
          /\ rng = seed
          /\ dist_along = 0
    /\ pc = "returned" =>
          /\ call.high > call.low
          /\ Meters(call.low) <= dist_along
          /\ dist_along < Meters(call.high)
          /\ rng = NextRng(seed)

\* A call with high below low has aborted.
C11_Witness ==
    /\ pc = "aborted"
    /\ call.high < call.low

\* C12: every call of must_dist_along made by the placement loop is made
\* with 0 <= d < the length of the lane's centre line, where the point and
\* the tangent are defined; the call never aborts.
C12_DistWithinLane ==
    /\ pc # "aborted"
    /\ \A k \in DOMAIN placed :
          LET pts == map.lanes[placed[k].lane].lane_center_pts
          IN  /\ 0 <= placed[k].dist
              /\ placed[k].dist < PolyLength(pts)
              /\ DistAlongDefined(pts, placed[k].dist)

\* The centre line of a lane was sampled within its last metre, and on
\* the second stretch of a bent lane.
C12_Witness ==
    /\ \E k \in DOMAIN placed :
          placed[k].dist + Meters(1)
              >= PolyLength(map.lanes[placed[k].lane].lane_center_pts)
    /\ \E k \in DOMAIN placed :
          /\ Len(map.lanes[placed[k].lane].lane_center_pts) = 3
          /\ placed[k].angle = 270

\* A renderable that the query for the polygon's bounds yields contains one
\* of the polygon's points (read off the map alone).
HitsBasemap(poly) ==
    \E r \in map.renderables :
        /\ does_intersect(as_bbox(get_bounds(poly)), as_bbox(r.bounds))
        /\ \E pt \in points(poly) : contains_pt(r, pt)

\* C13: the call never aborts: it is in one of its loops or has returned;
\* what it returns is the complete list, every accepted candidate having
\* been examined; with no eligible lane, with no candidate, or with every
\* candidate rejected it returns the empty sequence, and a candidate
\* rejected for overlap raises nothing.
C13_EmptyIsSuccess ==
    /\ pc # "aborted"
    /\ pc \in {"buildings", "lanes", "sidewalks", "walk", "prune", "basemap", "done"}
    /\ Returned =>
          /\ Len(survivors)
                = Cardinality({n \in DOMAIN non_overlapping :
                                  ~ HitsBasemap(non_overlapping[n])})
          /\ EligibleIdsFrom(1) = << >> => (houses = << >> /\ survivors = << >>)
          /\ houses = << >> => survivors = << >>
          /\ (\A n \in DOMAIN non_overlapping : HitsBasemap(non_overlapping[n]))
                => survivors = << >>

\* The call returned the empty sequence after the pruner had dropped some
\* candidates and the basemap filter all the others.
C13_Witness ==
    /\ Returned
    /\ survivors = << >>
    /\ Len(non_overlapping) >= 1
    /\ Len(non_overlapping) < Len(houses)

\* Candidates k and k + 1 were placed one after the other on the same lane,
\* a straight one.
NeighboursOnStraightLane(k) ==
    /\ k \in DOMAIN placed
    /\ k + 1 \in DOMAIN placed
    /\ placed[k].lane = placed[k + 1].lane
    /\ Len(map.lanes[placed[k].lane].lane_center_pts) = 2

\* C14 as stated: two consecutive candidates of a straight lane never
\* overlap each other.
C14_NeighboursApart ==
    \A k \in DOMAIN placed :
        NeighboursOnStraightLane(k) => ~ intersects(houses[k], houses[k + 1])

\* C14, amended: the scan positions of two consecutive candidates of a lane
\* are max(width, height) of the first plus its gap apart, the gap being
\* at least 2 m and less than 4 m; on a straight lane the two overlap
\* exactly when half the sum of their widths reaches that distance.
C14_NeighbourSpacing ==
    /\ Len(placed) = Len(houses)
    /\ \A k \in DOMAIN placed :
          (k + 1 \in DOMAIN placed /\ placed[k].lane = placed[k + 1].lane) =>
              /\ placed[k + 1].dist - placed[k].dist
                    = Meters(Max(placed[k].width, placed[k].height)) + placed[k].gap
              /\ Meters(2) <= placed[k].gap
              /\ placed[k].gap < Meters(4)
    /\ \A k \in DOMAIN placed :
          NeighboursOnStraightLane(k) =>
              (intersects(houses[k], houses[k + 1])
                  <=> Meters(placed[k].width) + Meters(placed[k + 1].width)
                         >= 2 * (placed[k + 1].dist - placed[k].dist))

\* On one straight lane a candidate overlaps the next one, and another
\* candidate does not.
C14_Witness ==
    \E j, k \in DOMAIN placed :
        /\ NeighboursOnStraightLane(j)
        /\ NeighboursOnStraightLane(k)
        /\ placed[j].lane = placed[k].lane
        /\ intersects(houses[j], houses[j + 1])
        /\ ~ intersects(houses[k], houses[k + 1])

\* The pruner has decided on houses[k].
Decided(k) == PruningOver \/ (pc = "prune" /\ k < i)

\* The accepted polygons that the pruner held when it came to houses[k].
AcceptedBefore(k) == {n \in DOMAIN kept : kept[n] < k}

\* A polygon's bounding box shares a point with another polygon's shape.
BoxMeetsShape(poly, other) == intersects(get_rectangle(get_bounds(poly)), other)

\* C15 as stated: a candidate whose bounding box intersects the shape of a
\* polygon accepted before it is rejected.
C15_BoxAgainstShape ==
    \A k \in DOMAIN houses :
        (/\ Decided(k)
         /\ \E n \in AcceptedBefore(k) : BoxMeetsShape(houses[k], non_overlapping[n]))
            => ~ Accepted(k)

\* C15, amended: a candidate is rejected exactly when its own shape
\* intersects the shape of a polygon accepted before it; one whose bounding
\* box alone reaches such a polygon is accepted.
C15_ShapeAgainstShape ==
    \A k \in DOMAIN houses :
        Decided(k) =>
            (Accepted(k)
                <=> \A n \in AcceptedBefore(k) :
                        ~ intersects(houses[k], non_overlapping[n]))

\* The pruner has rejected a candidate, and has accepted another whose
\* bounding box intersects the shape of a polygon accepted before it.
C15_Witness ==
    /\ PruningOver
    /\ \E k \in DOMAIN houses : ~ Accepted(k)
    /\ \E k \in DOMAIN houses :
          /\ Accepted(k)
          /\ \E n \in AcceptedBefore(k) : BoxMeetsShape(houses[k], non_overlapping[n])

\* The stage a loop belongs to: selection, placement, self-overlap pruning,
\* basemap filter, and the return.
Stage(p) ==
    CASE p \in {"buildings", "lanes"} -> 1
      [] p \in {"sidewalks", "walk"} -> 2
      [] p = "prune" -> 3
      [] p = "basemap" -> 4
      [] OTHER -> 5

\* C16: the stages follow one another and none is entered again; a stage
\* is left only when its loop has gone through its whole collection; the
\* selected lanes change only during selection, the candidates only during
\* placement, the accepted polygons and the quadtree only during pruning
\* and the survivors only during the basemap filter, which takes its
\* polygons from the accepted ones.
C16_StagesInOrder ==
    [][/\ Stage(pc') \in {Stage(pc), Stage(pc) + 1}
       /\ (Stage(pc) = 1 /\ Stage(pc') = 2) => i > Len(map.lanes)
       /\ (Stage(pc) = 2 /\ Stage(pc') = 3) => i > Len(empty_sidewalks)
       /\ (Stage(pc) = 3 /\ Stage(pc') = 4) => i > Len(houses)
       /\ (Stage(pc) = 4 /\ Stage(pc') = 5) => i > Len(non_overlapping)
       /\ (empty_sidewalks' # empty_sidewalks \/ lanes_with_buildings' # lanes_with_buildings)
             => Stage(pc) = 1 /\ Stage(pc') = 1
       /\ (houses' # houses \/ rng' # rng) => Stage(pc) = 2 /\ Stage(pc') = 2
       /\ (non_overlapping' # non_overlapping \/ quadtree' # quadtree)
             => Stage(pc) = 3 /\ Stage(pc') = 3
       /\ survivors' # survivors =>
             /\ Stage(pc) = 4 /\ Stage(pc') = 4
             /\ \E n \in DOMAIN non_overlapping :
                   survivors' = Append(survivors, non_overlapping[n])
      ]_vars

\* The filter has passed a polygon, the pruner having dropped a candidate
\* of another lane.
C16_Witness ==
    /\ pc = "basemap"
    /\ Len(survivors) >= 1
    /\ Len(non_overlapping) < Len(houses)
    /\ Len(offsets) >= 2

\* The first n states the generator passes through after state s.
RECURSIVE StreamFrom(_, _)
StreamFrom(s, n) ==
    IF n = 0 THEN << >> ELSE << NextRng(s) >> \o StreamFrom(NextRng(s), n - 1)

\* The place among the walked lanes of the lane candidate k stands on.
LaneOrdinal(k) == CHOOSE o \in DOMAIN offsets : offsets[o].lane = placed[k].lane

\* The number of draws made before the walk of the o-th lane began.
DrawsBeforeLane(o) ==
    (o - 1) + 3 * Cardinality({k \in DOMAIN placed : LaneOrdinal(k) < o})

\* The candidate the walk places on a lane at a distance, with a width and
\* a height: the lane's own centre line and the draws, nothing else.
HouseOnLane(l, d, width, height) ==
    LET at == must_dist_along(l.lane_center_pts, d)
    IN  HousePolygon(at.pt, at.angle, width, height)

\* C17: the pooled candidates are those of the selected lanes, lane after
\* lane in selection order and in increasing distance along each lane;
\* each candidate is the rectangle its own lane, distance and draws give;
\* the generator is drawn from once for a lane's first offset and then
\* three times for each candidate (width, height, gap), in that order and
\* from the one generator started at the seed, and never after placement.
C17_LaneByLane ==
    LET draws == StreamFrom(seed, Len(offsets) + 3 * Len(placed))
    IN  /\ Len(placed) = Len(houses)
        /\ Len(offsets) <= Len(empty_sidewalks)
        /\ \A o \in DOMAIN offsets :
              /\ offsets[o].lane = empty_sidewalks[o]
              /\ offsets[o].dist = Meters(1 + (draws[DrawsBeforeLane(o) + 1] % 4))
        /\ \A k \in DOMAIN placed :
              /\ \E o \in DOMAIN offsets : offsets[o].lane = placed[k].lane
              /\ houses[k] = HouseOnLane(map.lanes[placed[k].lane], placed[k].dist,
                                         placed[k].width, placed[k].height)
              /\ placed[k].width = 6 + (draws[LaneOrdinal(k) + 3 * (k - 1) + 1] % 8)
              /\ placed[k].height = 6 + (draws[LaneOrdinal(k) + 3 * (k - 1) + 2] % 8)
              /\ placed[k].gap = Meters(2 + (draws[LaneOrdinal(k) + 3 * (k - 1) + 3] % 2))
              /\ placed[k].dist =
                    IF k > 1 /\ placed[k - 1].lane = placed[k].lane
                    THEN placed[k - 1].dist
                            + Meters(Max(placed[k - 1].width, placed[k - 1].height))
                            + placed[k - 1].gap
                    ELSE offsets[LaneOrdinal(k)].dist
        /\ \A j, k \in DOMAIN placed :
              j < k => \/ LaneOrdinal(j) < LaneOrdinal(k)
                       \/ /\ placed[j].lane = placed[k].lane
                          /\ placed[j].dist < placed[k].dist
        /\ rng = (IF draws = << >> THEN seed ELSE draws[Len(draws)])

\* The call returned after placing two candidates or more on each of two
\* lanes.
C17_Witness ==
    /\ Returned
    /\ \E a, b \in DOMAIN offsets :
          /\ a # b
          /\ Cardinality({k \in DOMAIN placed : placed[k].lane = offsets[a].lane}) >= 2
          /\ Cardinality({k \in DOMAIN placed : placed[k].lane = offsets[b].lane}) >= 2

\* Sequence s is the beginning of sequence t.
IsPrefix(s, t) == Len(s) <= Len(t) /\ SubSeq(t, 1, Len(s)) = s

\* C18: every step leaves the accepted polygons a prefix of what they
\* become and every entry of the quadtree in place; a turn of the pruning
\* loop on a candidate that intersects an accepted polygon changes neither,
\* and a turn on any other candidate appends that candidate and adds one
\* entry.
C18_AppendOnly ==
    [][/\ IsPrefix(non_overlapping, non_overlapping')
       /\ quadtree \subseteq quadtree'
       /\ (pc = "prune" /\ pc' = "prune") =>
             IF \E n \in DOMAIN non_overlapping :
                    intersects(houses[i], non_overlapping[n])
             THEN non_overlapping' = non_overlapping /\ quadtree' = quadtree
             ELSE /\ non_overlapping' = Append(non_overlapping, houses[i])
                  /\ Cardinality(quadtree') = Cardinality(quadtree) + 1
                  /\ Cardinality(quadtree' \ quadtree) = 1
      ]_vars

\* The pruning loop is under way, having accepted two candidates and
\* rejected one.
C18_Witness ==
    /\ pc = "prune"
    /\ Len(non_overlapping) >= 2
    /\ i - 1 > Len(non_overlapping)
    /\ i <= Len(houses)

\* C19: the quadtree holds one entry for each accepted polygon, keyed by
\* the polygon's 0-based position and holding the polygon's own bounding
\* box, without the buffer; so every item a query yields is a position of
\* non_overlapping.
C19_KeysArePositions ==
    /\ Cardinality(quadtree) = Len(non_overlapping)
    /\ {e.item : e \in quadtree} = 0..(Len(non_overlapping) - 1)
    /\ \A e \in quadtree :
          /\ e.item + 1 \in DOMAIN non_overlapping
          /\ e.aabb = as_bbox(get_bounds(non_overlapping[e.item + 1]))
    /\ (pc = "prune" /\ i <= Len(houses)) =>
          \A e \in query(quadtree, SearchBox(houses[i])) :
              e.item + 1 \in DOMAIN non_overlapping

\* The pruning loop is about to ask the quadtree about a candidate, and
\* the query yields two of three or more accepted polygons.
C19_Witness ==
    /\ pc = "prune"
    /\ i <= Len(houses)
    /\ Len(non_overlapping) >= 3
    /\ Cardinality(query(quadtree, SearchBox(houses[i]))) = 2

\* A renderable lies within the polygon, clear of all its points.
HoldsRenderable(poly) ==
    \E r \in map.renderables :
        /\ \A part \in r.parts :
              \A k \in 1..4 : intersects(<< get_rectangle(part)[k] >>, poly)
        /\ \A pt \in points(poly) : ~ contains_pt(r, pt)

\* The test of the filter, on the polygon and the map alone.
MissesBasemap(poly) == ~ HitsBasemap(poly)

\* C20: the survivors are, in their order, exactly those of the accepted
\* polygons gone through so far of which no renderable that the query for
\* the polygon's bounds yields contains a point; whether a polygon is kept
\* rests on that polygon and the map alone, and a renderable lying within
\* a polygon does not count.
C20_FilterByOwnPoints ==
    pc \in {"basemap", "done"} =>
        /\ i - 1 <= Len(non_overlapping)
        /\ survivors = SelectSeq(SubSeq(non_overlapping, 1, i - 1), MissesBasemap)

\* The call returned a polygon that holds a renderable within it, the
\* filter having dropped another accepted polygon.
C20_Witness ==
    /\ Returned
    /\ Len(survivors) < Len(non_overlapping)
    /\ \E n \in DOMAIN survivors : HoldsRenderable(survivors[n])

\* The candidates placed on a lane.
PlacedOn(l) == {k \in DOMAIN placed : placed[k].lane = l}

\* The least whole number that is at least a / b.
CeilDiv(a, b) == (a + b - 1) \div b

\* A number that every step of the call increases and that never exceeds
\* that of the return: the loops in their order, within a loop its
\* position, and within a walk the distance along the lane.
Variant ==
    CASE pc = "buildings" -> i
      [] pc = "lanes" -> 100 + i
      [] pc = "sidewalks" -> 1000 + 10000 * i
      [] pc = "walk" -> 1000 + 10000 * i + 1 + dist_along
      [] pc = "prune" -> 200000 + i
      [] pc = "basemap" -> 300000 + i
      [] OTHER -> 400000

\* The number of candidates on each walked lane is at most the lane's
\* length over 8 m, rounded up, and the loops stay within their
\* collections.
CountsBounded ==
    /\ \A o \in DOMAIN offsets :
          Cardinality(PlacedOn(offsets[o].lane))
              <= CeilDiv(PolyLength(map.lanes[offsets[o].lane].lane_center_pts),
                         Meters(8))
    /\ pc = "walk" => dist_along < 10000 - 1
    /\ pc = "prune" => i <= Len(houses) + 1
    /\ pc = "basemap" => i <= Len(non_overlapping) + 1
    /\ Variant <= 400000

\* C21 as stated: the scan position grows by more than 8 m with each
\* candidate placed on a lane.
C21_StepAboveEight ==
    \A k \in DOMAIN placed :
        (k + 1 \in DOMAIN placed /\ placed[k].lane = placed[k + 1].lane)
            => placed[k + 1].dist - placed[k].dist > Meters(8)

\* C21, amended: the call terminates, every step increasing a bounded
\* number; the scan position grows by at least 8 m with each candidate
\* placed (8 m exactly for sides of 6 m and a gap of 2 m), so a lane gets at
\* most ceil(length / 8 m) candidates; each pruning loop goes through its
\* sequence one polygon a turn, each polygon once.
C21_Terminates ==
    /\ [] CountsBounded
    /\ [][/\ Variant' > Variant
          /\ (pc = "walk" /\ pc' = "walk") => dist_along' >= dist_along + Meters(8)
          /\ (pc = "prune" /\ pc' = "prune") => i' = i + 1
          /\ (pc = "basemap" /\ pc' = "basemap") => i' = i + 1
          /\ (pc = "prune" /\ pc' = "basemap") => i = Len(houses) + 1
          /\ (pc = "basemap" /\ pc' = "done") => i = Len(non_overlapping) + 1
         ]_vars

\* The call returned having placed on a lane as many candidates as its
\* length allows, and two candidates or more, 8 m apart, on a lane.
C21_Witness ==
    /\ Returned
    /\ \E o \in DOMAIN offsets :
          Cardinality(PlacedOn(offsets[o].lane))
              = CeilDiv(PolyLength(map.lanes[offsets[o].lane].lane_center_pts),
                        Meters(8))
    /\ \E k \in DOMAIN placed :
          /\ k + 1 \in DOMAIN placed
          /\ placed[k].lane = placed[k + 1].lane
          /\ placed[k + 1].dist - placed[k].dist = Meters(8)

\* The candidates the pruner has decided on so far.
HousesDecided ==
    SubSeq(houses, 1, IF pc = "prune" THEN i - 1 ELSE Len(houses))

\* The polygon lies partly or wholly outside the map's bounds.
ReachesOutsideMap(poly) ==
    LET b == get_bounds(poly)
    IN  \/ b.min_x < map.bounds.min_x \/ b.max_x > map.bounds.max_x
        \/ b.min_y < map.bounds.min_y \/ b.max_y > map.bounds.max_y

\* C22: at every turn the accepted polygons are those the naive pruner
\* keeps, which tests each candidate against every polygon kept before it
\* (KeepFrom), whichever items the queries yielded and in whichever order:
\* the buffer and the query narrow the tests and decide nothing.
C22_SameAsNaive ==
    (pc = "prune" \/ PruningOver) =>
        non_overlapping = KeepFrom(HousesDecided, 1, << >>)

\* The pruner has accepted a candidate that lies within 1 m of an accepted
\* polygon without their boxes meeting, has rejected a candidate that
\* intersects an accepted polygon reaching outside the map's bounds, and
\* has left an accepted polygon out of a query.
C22_Witness ==
    /\ PruningOver
    /\ \E n, m \in DOMAIN non_overlapping :
          /\ n < m
          /\ non_overlapping[n] \in
                {non_overlapping[e.item + 1] :
                    e \in query(quadtree, SearchBox(non_overlapping[m]))}
          /\ ~ does_intersect(as_bbox(get_bounds(non_overlapping[m])),
                              as_bbox(get_bounds(non_overlapping[n])))
    /\ \E k \in DOMAIN houses : \E n \in AcceptedBefore(k) :
          /\ ~ Accepted(k)
          /\ intersects(houses[k], non_overlapping[n])
          /\ ReachesOutsideMap(non_overlapping[n])
    /\ \E m \in DOMAIN non_overlapping : \E n \in 1..(m - 1) :
          ~ does_intersect(SearchBox(non_overlapping[m]),
                           as_bbox(get_bounds(non_overlapping[n])))

\* C23: of the candidates decided on, the first is accepted; every
\* rejected one intersects a candidate generated before it and accepted;
\* and one that intersects, among the earlier candidates, only rejected
\* ones is accepted.
C23_GreedyMaximal ==
    /\ (houses # << >> /\ Decided(1)) => Accepted(1)
    /\ \A k \in DOMAIN houses :
          (Decided(k) /\ ~ Accepted(k)) =>
              \E j \in 1..(k - 1) :
                  Accepted(j) /\ intersects(houses[j], houses[k])
    /\ \A k \in DOMAIN houses :
          (/\ Decided(k)
           /\ \A j \in 1..(k - 1) :
                 intersects(houses[j], houses[k]) => ~ Accepted(j))
              => Accepted(k)

\* The pruner has accepted a candidate that intersects an earlier
\* candidate, a rejected one.
C23_Witness ==
    /\ PruningOver
    /\ \E j, k \in DOMAIN houses :
          /\ j < k
          /\ intersects(houses[j], houses[k])
          /\ ~ Accepted(j)
          /\ Accepted(k)

\* Whether s[a..] can be found, in order, within t[b..].
RECURSIVE SubsequenceFrom(_, _, _, _)
SubsequenceFrom(s, a, t, b) ==
    IF a > Len(s) THEN TRUE
    ELSE IF b > Len(t) THEN FALSE
    ELSE IF s[a] = t[b] THEN SubsequenceFrom(s, a + 1, t, b + 1)
    ELSE SubsequenceFrom(s, a, t, b + 1)

\* C24: what is returned is the pruner's output less the polygons that hit
\* the basemap (ClearFrom), in the order of the pooled candidates; no
\* candidate the pruner rejected is returned, whatever became of the
\* polygon that blocked it.
C24_FilterAfterPruner ==
    Returned =>
        /\ survivors = ClearFrom(non_overlapping, 1, << >>)
        /\ SubsequenceFrom(survivors, 1, non_overlapping, 1)
        /\ SubsequenceFrom(non_overlapping, 1, houses, 1)
        /\ SubsequenceFrom(survivors, 1, houses, 1)
        /\ \A k \in DOMAIN houses :
              ~ Accepted(k) => \A n \in DOMAIN survivors : survivors[n] # houses[k]

\* The call returned without a candidate that is clear of the basemap and
\* of every returned polygon: the pruner had rejected it for a polygon
\* that the basemap filter then removed.
C24_Witness ==
    /\ Returned
    /\ \E k \in DOMAIN houses :
          /\ ~ Accepted(k)
          /\ ~ HitsBasemap(houses[k])
          /\ \A n \in DOMAIN survivors : ~ intersects(houses[k], survivors[n])
          /\ \E j \in AcceptedBefore(k) :
                /\ intersects(houses[k], non_overlapping[j])
                /\ HitsBasemap(non_overlapping[j])

\* A building of the map fronts the lane.
Fronted(l) == \E b \in DOMAIN map.buildings : map.buildings[b].sidewalk = l.id

\* The lane's id is among the selected ones.
Selected(l) == \E n \in DOMAIN empty_sidewalks : empty_sidewalks[n] = l.id

\* C25: once selection is over, a sidewalk of a residential road is
\* selected exactly when no building fronts that very lane: of two
\* sidewalks of one residential road, one fronted by a building and one
\* not, the first is left out and the second selected; and the second is
\* then walked like any selected lane.
C25_PerLaneNotPerRoad ==
    /\ pc \notin {"buildings", "lanes"} =>
          \A a, b \in DOMAIN map.lanes :
              LET l == map.lanes[a]
                  other == map.lanes[b]
              IN  (/\ a # b
                   /\ l.parent = other.parent
                   /\ map.roads[l.parent].highway = "residential"
                   /\ l.lane_type = "Sidewalk"
                   /\ other.lane_type = "Sidewalk"
                   /\ Fronted(other)
                   /\ ~ Fronted(l))
                  => (Selected(l) /\ ~ Selected(other))
    /\ (pc \in {"prune", "basemap", "done"}) =>
          \A a \in DOMAIN map.lanes :
              (/\ map.lanes[a].lane_type = "Sidewalk"
               /\ map.roads[map.lanes[a].parent].highway = "residential"
               /\ ~ Fronted(map.lanes[a]))
                  => \E o \in DOMAIN offsets : offsets[o].lane = a

\* The call returned a house placed on a sidewalk of a road another
\* sidewalk of which a building fronts; no house was placed on that one.
C25_Witness ==
    /\ Returned
    /\ \E a, b \in DOMAIN map.lanes :
          /\ a # b
          /\ map.lanes[a].parent = map.lanes[b].parent
          /\ map.lanes[b].lane_type = "Sidewalk"
          /\ Fronted(map.lanes[b])
          /\ ~ Fronted(map.lanes[a])
          /\ \A k \in DOMAIN placed : placed[k].lane # b
          /\ \E k \in DOMAIN placed :
                /\ placed[k].lane = a
                /\ \E n \in DOMAIN survivors : survivors[n] = houses[k]

====
